---- MODULE Spec2Model ----
(***************************************************************************)
(* A model of the CHIP-8 interpreter of chip8_core (src/chip8_core/src/    *)
(* lib.rs) driven by the frame loop of chip8_sdl2 (src/chip8_sdl2/src/     *)
(* main.rs).  The machine state is the fields of struct Chip8; one action  *)
(* per operation of the host loop: load_rom, Keypad::update_keys, tick and *)
(* the redraw at the end of a frame.                                       *)
(***************************************************************************)
EXTENDS Integers, Sequences, FiniteSets, TLC

(***************************************************************************)
(* Program constants.                                                      *)
(***************************************************************************)
PIXELS_PER_ROW == 64
PIXELS_PER_COLUMN == 32
PIXELS_PER_SCREEN == PIXELS_PER_COLUMN * PIXELS_PER_ROW
STACK_SIZE == 16
RAM_SIZE == 4096
ROM_INITIAL_POSITION == 512
FONT_INITIAL_POSITION == 80
instructions_per_frame == 5

FONT_SET ==
  << \hF0, \h90, \h90, \h90, \hF0,
     \h20, \h60, \h20, \h20, \h70,
     \hF0, \h10, \hF0, \h80, \hF0,
     \hF0, \h10, \hF0, \h10, \hF0,
     \h90, \h90, \hF0, \h10, \h10,
     \hF0, \h80, \hF0, \h10, \hF0,
     \hF0, \h80, \hF0, \h90, \hF0,
     \hF0, \h10, \h20, \h40, \h40,
     \hF0, \h90, \hF0, \h90, \hF0,
     \hF0, \h90, \hF0, \h10, \hF0,
     \hF0, \h90, \hF0, \h90, \h90,
     \hE0, \h90, \hE0, \h90, \hE0,
     \hF0, \h80, \hF0, \h80, \hF0,
     \hE0, \h90, \h90, \h90, \hE0,
     \hF0, \h80, \hF0, \h80, \hF0,
     \hF0, \h80, \hF0, \h80, \h80 >>

(***************************************************************************)
(* Bounds of the model.                                                    *)
(***************************************************************************)
\* Frames of the host loop that are explored.
MaxFrames == 4
\* Keys the user can hold down: the NumKeys highest keys of the keypad.
NumKeys == 2

(***************************************************************************)
(* Machine integers: u8 and u16 values are naturals, the operators below   *)
(* are Rust's on them.                                                     *)
(***************************************************************************)
U8 == 0..255
Min(a, b) == IF a < b THEN a ELSE b

RECURSIVE BitAnd(_, _)
BitAnd(a, b) ==
  IF a = 0 \/ b = 0 THEN 0
  ELSE (a % 2) * (b % 2) + 2 * BitAnd(a \div 2, b \div 2)

RECURSIVE BitOr(_, _)
BitOr(a, b) ==
  IF a = 0 THEN b
  ELSE IF b = 0 THEN a
  ELSE (IF a % 2 = 1 \/ b % 2 = 1 THEN 1 ELSE 0) + 2 * BitOr(a \div 2, b \div 2)

RECURSIVE BitXor(_, _)
BitXor(a, b) ==
  IF a = 0 THEN b
  ELSE IF b = 0 THEN a
  ELSE ((a + b) % 2) + 2 * BitXor(a \div 2, b \div 2)

\* a >> k
Shr(a, k) == a \div (2 ^ k)
\* a << k on a u8: the bits shifted past bit 7 are lost
Shl8(a, k) == (a * (2 ^ k)) % 256

\* u8::wrapping_add, and the pairs of overflowing_add and overflowing_sub
wrapping_add(a, b) == (a + b) % 256
overflowing_add(a, b) == << (a + b) % 256, a + b > 255 >>
overflowing_sub(a, b) == << (a - b + 256) % 256, a < b >>

\* u16::from_be_bytes([hi, lo])
from_be_bytes(hi, lo) == hi * 256 + lo

(***************************************************************************)
(* The pure functions of the crate.                                        *)
(***************************************************************************)
\* decode_instruction_into_nibbles with the two middle nibbles exchanged.
decode_instruction_into_nibbles_yx(instruction) ==
  << Shr(BitAnd(instruction, \hF000), 12),
     Shr(BitAnd(instruction, \h00F0), 4),
     Shr(BitAnd(instruction, \h0F00), 8),
     BitAnd(instruction, \h000F) >>

decode_instruction_into_nibbles(instruction) ==
  << Shr(BitAnd(instruction, \hF000), 12),
     Shr(BitAnd(instruction, \h0F00), 8),
     Shr(BitAnd(instruction, \h00F0), 4),
     BitAnd(instruction, \h000F) >>

convert_to_binary_coded_decimal(num) ==
  LET units == num % 10
      hundreds == (num - units) \div 100
      decimals == (num - (hundreds * 100) - units) \div 10
  IN  << hundreds, decimals, units >>

point_from_index(index) == << index \div PIXELS_PER_ROW, index % PIXELS_PER_ROW >>

index_from_point(p) == p[1] * PIXELS_PER_ROW + p[2]

(***************************************************************************)
(* State.  The first group is struct Chip8 (keypad holds struct Keypad);   *)
(* screen is the set of the indices of the cells that are true.  memory    *)
(* is [u8; RAM_SIZE] held sparsely: a function from the addresses that     *)
(* were written (by Chip8::new, load_rom or an opcode) to their bytes;     *)
(* every other address below RAM_SIZE holds the 0 the array started with.  *)
(* at(mem, a) is mem[a] of the source, for a below RAM_SIZE.               *)
(* host_pc and ticks_done are the position of main in its loop.  fault is  *)
(* "none" while the process runs and the panic that ended it otherwise.    *)
(* overflow_checks is the build's integer-overflow behaviour: "unobserved" *)
(* until an overflow happens, then "off" if the build wraps (a build with  *)
(* the checks on panics there, which ends the run).                        *)
(* hist is a history variable: it records what the claims speak about and  *)
(* no action reads it.                                                     *)
(***************************************************************************)
VARIABLES memory, screen, pc, i, stack, delay_timer, sound_timer, v,
          should_redraw, keypad,
          host_pc, ticks_done, fault, overflow_checks,
          hist

machine == << memory, screen, pc, i, stack, delay_timer, sound_timer, v,
              should_redraw, keypad >>
vars == << memory, screen, pc, i, stack, delay_timer, sound_timer, v,
           should_redraw, keypad, host_pc, ticks_done, fault, overflow_checks,
           hist >>

NoKeys == [k \in 0..15 |-> FALSE]

at(mem, a) == IF a \in DOMAIN mem THEN mem[a] ELSE 0

\* mem[start..start + Len(bytes)].copy_from_slice(bytes)
copy_from_slice(mem, start, bytes) ==
  [a \in DOMAIN mem \cup (start..(start + Len(bytes) - 1)) |->
     IF a >= start /\ a < start + Len(bytes) THEN bytes[a - start + 1] ELSE mem[a]]

(***************************************************************************)
(* Keypad.  A snapshot is a function from the 16 keys to BOOLEAN; position *)
(* is Iterator::position: the first index that satisfies, or None (-1).    *)
(***************************************************************************)
None == -1

\* update_keys replacing the current snapshot without keeping the old one.
update_keys_keeps_previous(kp, current_frame_keys) ==
  [previous_frame_keys |-> kp.previous_frame_keys,
   current_frame_keys |-> current_frame_keys]

update_keys(kp, current_frame_keys) ==
  [previous_frame_keys |-> kp.current_frame_keys,
   current_frame_keys |-> current_frame_keys]

first_released_keypress(kp) ==
  LET hits == {k \in 0..15 : kp.previous_frame_keys[k] /\ ~kp.current_frame_keys[k]}
  IN  IF hits = {} THEN None ELSE CHOOSE k \in hits : \A h \in hits : k <= h

first_pressed_keypress(kp) ==
  LET hits == {k \in 0..15 : kp.current_frame_keys[k]}
  IN  IF hits = {} THEN None ELSE CHOOSE k \in hits : \A h \in hits : k <= h

(***************************************************************************)
(* enum NextInstruction, and what an opcode handler hands back to tick:    *)
(* the machine as the handler left it, the directive, the panic that       *)
(* ended the handler ("none" when it returned) and whether an integer      *)
(* operation of the handler overflowed.                                    *)
(***************************************************************************)
Next_ == [kind |-> "Next", addr |-> 0]
Skip == [kind |-> "Skip", addr |-> 0]
Jump(addr) == [kind |-> "Jump", addr |-> addr]
Stay == [kind |-> "Stay", addr |-> 0]

skip_if(condition) == IF condition THEN Skip ELSE Next_

Returns(s, next) == [self |-> s, next |-> next, fault |-> "none", overflowed |-> FALSE]
Panics(s, msg) == [self |-> s, next |-> Next_, fault |-> msg, overflowed |-> FALSE]
Overflows(s, next) == [self |-> s, next |-> next, fault |-> "none", overflowed |-> TRUE]

\* The panics of the crate; the process ends at each of them.
IndexOutOfBounds == "index out of bounds"
UnwrapOnNone == "called Option::unwrap() on a None value"
CapacityExceeded == "ArrayVec: capacity exceeded in push"
NotYetImplemented == "not yet implemented"
ArithmeticOverflow == "attempt to compute with overflow"

(***************************************************************************)
(* The opcode handlers.  s is self: the machine with pc already advanced.  *)
(***************************************************************************)
\* execute_00e0 without the write to should_redraw.
execute_00e0_keeps_flag(s) ==
  Returns([s EXCEPT !.screen = {}], Next_)

execute_00e0(s) ==
  Returns([s EXCEPT !.screen = {}, !.should_redraw = TRUE], Next_)

execute_00ee(s) ==
  IF Len(s.stack) = 0 THEN Panics(s, UnwrapOnNone)
  ELSE Returns([s EXCEPT !.stack = SubSeq(s.stack, 1, Len(s.stack) - 1)],
               Jump(s.stack[Len(s.stack)]))

execute_1nnn(s, nnn) == Returns(s, Jump(nnn))

\* execute_2nnn pushing the address of the call itself.
execute_2nnn_pushes_call_site(s, nnn) ==
  IF Len(s.stack) >= STACK_SIZE THEN Panics(s, CapacityExceeded)
  ELSE Returns([s EXCEPT !.stack = Append(s.stack, s.pc - 2)], Jump(nnn))

execute_2nnn(s, nnn) ==
  IF Len(s.stack) >= STACK_SIZE THEN Panics(s, CapacityExceeded)
  ELSE Returns([s EXCEPT !.stack = Append(s.stack, s.pc)], Jump(nnn))

execute_3xnn(s, x, nn) == Returns(s, skip_if(s.v[x] = nn))

execute_4xnn(s, x, nn) == Returns(s, skip_if(s.v[x] # nn))

execute_5xy0(s, x, y) == Returns(s, skip_if(s.v[x] = s.v[y]))

execute_6xnn(s, x, nn) == Returns([s EXCEPT !.v[x] = nn], Next_)

execute_7xnn(s, x, nn) == Returns([s EXCEPT !.v[x] = wrapping_add(s.v[x], nn)], Next_)

execute_8xy0(s, x, y) == Returns([s EXCEPT !.v[x] = s.v[y]], Next_)

\* execute_8xy1 without the write of 0 to VF.
execute_8xy1_keeps_vf(s, x, y) ==
  LET v1 == [s.v EXCEPT ![x] = BitOr(s.v[x], s.v[y])]
  IN  Returns([s EXCEPT !.v = v1], Next_)

execute_8xy1(s, x, y) ==
  LET v1 == [s.v EXCEPT ![x] = BitOr(s.v[x], s.v[y])]
  IN  Returns([s EXCEPT !.v = [v1 EXCEPT ![15] = 0]], Next_)

execute_8xy2(s, x, y) ==
  LET v1 == [s.v EXCEPT ![x] = BitAnd(s.v[x], s.v[y])]
  IN  Returns([s EXCEPT !.v = [v1 EXCEPT ![15] = 0]], Next_)

execute_8xy3(s, x, y) ==
  LET v1 == [s.v EXCEPT ![x] = BitXor(s.v[x], s.v[y])]
  IN  Returns([s EXCEPT !.v = [v1 EXCEPT ![15] = 0]], Next_)

execute_8xy4(s, x, y) ==
  LET r == overflowing_add(s.v[x], s.v[y])
      v1 == [s.v EXCEPT ![x] = r[1]]
  IN  Returns([s EXCEPT !.v = [v1 EXCEPT ![15] = IF r[2] THEN 1 ELSE 0]], Next_)

execute_8xy5(s, x, y) ==
  LET r == overflowing_sub(s.v[x], s.v[y])
      v1 == [s.v EXCEPT ![x] = r[1]]
  IN  Returns([s EXCEPT !.v = [v1 EXCEPT ![15] = IF r[2] THEN 0 ELSE 1]], Next_)

\* execute_8xy6 shifting VX in place, without taking VY first.
execute_8xy6_in_place(s, x, y) ==
  LET v1 == s.v
      rotated_bit == BitAnd(v1[x], 1)
      v2 == [v1 EXCEPT ![x] = Shr(v1[x], 1)]
  IN  Returns([s EXCEPT !.v = [v2 EXCEPT ![15] = rotated_bit]], Next_)

execute_8xy6(s, x, y) ==
  LET v1 == [s.v EXCEPT ![x] = s.v[y]]
      rotated_bit == BitAnd(v1[x], 1)
      v2 == [v1 EXCEPT ![x] = Shr(v1[x], 1)]
  IN  Returns([s EXCEPT !.v = [v2 EXCEPT ![15] = rotated_bit]], Next_)

\* execute_8xy7 subtracting VY from VX, as execute_8xy5 does.
execute_8xy7_minuend_vx(s, x, y) ==
  LET r == overflowing_sub(s.v[x], s.v[y])
      v1 == [s.v EXCEPT ![x] = r[1]]
  IN  Returns([s EXCEPT !.v = [v1 EXCEPT ![15] = IF r[2] THEN 0 ELSE 1]], Next_)

execute_8xy7(s, x, y) ==
  LET r == overflowing_sub(s.v[y], s.v[x])
      v1 == [s.v EXCEPT ![x] = r[1]]
  IN  Returns([s EXCEPT !.v = [v1 EXCEPT ![15] = IF r[2] THEN 0 ELSE 1]], Next_)

execute_8xye(s, x, y) ==
  LET v1 == [s.v EXCEPT ![x] = s.v[y]]
      rotated_bit == BitAnd(Shr(v1[x], 7), 1)
      v2 == [v1 EXCEPT ![x] = Shl8(v1[x], 1)]
  IN  Returns([s EXCEPT !.v = [v2 EXCEPT ![15] = rotated_bit]], Next_)

execute_9xy0(s, x, y) == Returns(s, skip_if(s.v[x] # s.v[y]))

execute_annn(s, nnn) == Returns([s EXCEPT !.i = nnn], Next_)

execute_bnnn(s, nnn) == Returns(s, Jump(nnn + s.v[0]))

\* random is the byte rand::thread_rng().gen() drew
execute_cxnn(s, x, nn, random) == Returns([s EXCEPT !.v[x] = BitAnd(random, nn)], Next_)

(***************************************************************************)
(* DXYN.  The two loops of execute_dxyn: st carries the screen, VF and the *)
(* panic of a sprite byte read outside memory.  dxyn_row is the inner loop *)
(* over one sprite byte: it visits every cell of the row once, so the      *)
(* cells it toggles are taken together.                                    *)
(***************************************************************************)
\* dxyn_row reading the sprite byte from its least significant bit.
dxyn_row_lsb_first(st, sprite_byte, column_index, j, end_to_right) ==
  LET lit == {row_iter \in 0..(end_to_right - j - 1) :
                BitAnd(Shr(sprite_byte, row_iter), 1) = 1}
      pixels == {column_index * PIXELS_PER_ROW + (j + row_iter) : row_iter \in lit}
  IN  [vf |-> IF pixels \cap st.screen # {} THEN 1 ELSE st.vf,
       screen |-> (st.screen \ pixels) \cup (pixels \ st.screen),
       fault |-> st.fault]

\* dxyn_row turning the cells of the set bits on instead of toggling them.
dxyn_row_sets(st, sprite_byte, column_index, j, end_to_right) ==
  LET lit == {row_iter \in 0..(end_to_right - j - 1) :
                BitAnd(Shr(sprite_byte, 7 - row_iter), 1) = 1}
      pixels == {column_index * PIXELS_PER_ROW + (j + row_iter) : row_iter \in lit}
  IN  [vf |-> IF pixels \cap st.screen # {} THEN 1 ELSE st.vf,
       screen |-> st.screen \cup pixels,
       fault |-> st.fault]

dxyn_row(st, sprite_byte, column_index, j, end_to_right) ==
  LET lit == {row_iter \in 0..(end_to_right - j - 1) :
                BitAnd(Shr(sprite_byte, 7 - row_iter), 1) = 1}
      pixels == {column_index * PIXELS_PER_ROW + (j + row_iter) : row_iter \in lit}
  IN  [vf |-> IF pixels \cap st.screen # {} THEN 1 ELSE st.vf,
       screen |-> (st.screen \ pixels) \cup (pixels \ st.screen),
       fault |-> st.fault]

RECURSIVE dxyn_columns(_, _, _, _, _, _, _, _)
dxyn_columns(st, mem, index, row0, end_downwards, j, end_to_right, column_iter) ==
  LET column_index == row0 + column_iter IN
  IF column_index >= end_downwards THEN st
  ELSE IF index + column_iter >= RAM_SIZE THEN [st EXCEPT !.fault = IndexOutOfBounds]
  ELSE dxyn_columns(dxyn_row(st, at(mem, index + column_iter), column_index, j, end_to_right),
                    mem, index, row0, end_downwards, j, end_to_right, column_iter + 1)

execute_dxyn(s, x, y, n) ==
  LET row0 == s.v[y] % 32
      j == s.v[x] % 64
      end_downwards == Min(row0 + n, 32)
      end_to_right == Min(j + 8, 64)
      st == dxyn_columns([screen |-> s.screen, vf |-> 0, fault |-> "none"],
                         s.memory, s.i, row0, end_downwards, j, end_to_right, 0)
      s1 == [s EXCEPT !.v[15] = st.vf, !.screen = st.screen, !.should_redraw = TRUE]
  IN  IF st.fault # "none" THEN Panics(s1, st.fault) ELSE Returns(s1, Next_)

execute_ex9e(s, x) ==
  IF s.v[x] >= 16 THEN Panics(s, IndexOutOfBounds)
  ELSE Returns(s, skip_if(s.keypad.current_frame_keys[s.v[x]]))

execute_exa1(s, x) ==
  IF s.v[x] >= 16 THEN Panics(s, IndexOutOfBounds)
  ELSE Returns(s, skip_if(~s.keypad.current_frame_keys[s.v[x]]))

execute_fx07(s, x) == Returns([s EXCEPT !.v[x] = s.delay_timer], Next_)

execute_fx15(s, x) == Returns([s EXCEPT !.delay_timer = s.v[x]], Next_)

execute_fx18(s, x) == Returns([s EXCEPT !.sound_timer = s.v[x]], Next_)

\* self.i += v[x] on a u16
execute_fx1e(s, x) ==
  IF s.i + s.v[x] > 65535
  THEN Overflows([s EXCEPT !.i = (s.i + s.v[x]) % 65536], Next_)
  ELSE Returns([s EXCEPT !.i = s.i + s.v[x]], Next_)

execute_fx0a(s, x) ==
  LET key == first_pressed_keypress(s.keypad)
  IN  IF key # None THEN Returns([s EXCEPT !.v[x] = key], Next_)
      ELSE Returns(s, Stay)

\* vx * 5 on a u8
execute_fx29(s, x) ==
  LET vx == s.v[x]
      offset == (vx * 5) % 256
      s1 == [s EXCEPT !.i = FONT_INITIAL_POSITION + offset]
  IN  IF vx * 5 > 255 THEN Overflows(s1, Next_) ELSE Returns(s1, Next_)

execute_fx33(s, x) ==
  LET numbers == convert_to_binary_coded_decimal(s.v[x])
      index == s.i
  IN  IF index + 3 > RAM_SIZE THEN Panics(s, IndexOutOfBounds)
      ELSE Returns([s EXCEPT
                      !.memory = copy_from_slice(s.memory, index, numbers),
                      !.i = s.i + x + 1],
                   Next_)

\* execute_fx65 reading V0..VX without VX.
execute_fx65_exclusive(s, x) ==
  LET index == s.i
  IN  IF index + x + 1 > RAM_SIZE THEN Panics(s, IndexOutOfBounds)
      ELSE Returns([s EXCEPT
                      !.v = [k \in 0..15 |-> IF k < x THEN at(s.memory, index + k) ELSE s.v[k]],
                      !.i = s.i + x + 1],
                   Next_)

execute_fx65(s, x) ==
  LET index == s.i
  IN  IF index + x + 1 > RAM_SIZE THEN Panics(s, IndexOutOfBounds)
      ELSE Returns([s EXCEPT
                      !.v = [k \in 0..15 |-> IF k <= x THEN at(s.memory, index + k) ELSE s.v[k]],
                      !.i = s.i + x + 1],
                   Next_)

execute_fx55(s, x) ==
  LET index == s.i
  IN  IF index + x + 1 > RAM_SIZE THEN Panics(s, IndexOutOfBounds)
      ELSE Returns([s EXCEPT
                      !.memory = copy_from_slice(s.memory, index,
                                                 [k \in 1..(x + 1) |-> s.v[k - 1]]),
                      !.i = s.i + x + 1],
                   Next_)

(***************************************************************************)
(* The dispatch of tick: the match on the nibbles.  An instruction that    *)
(* matches no arm reaches todo!().                                         *)
(***************************************************************************)
Dispatch(s, instruction, random) ==
  LET nibbles == decode_instruction_into_nibbles(instruction)
      n0 == nibbles[1]
      x == nibbles[2]
      y == nibbles[3]
      n == nibbles[4]
      nn == BitAnd(instruction, \h00FF)
      nnn == BitAnd(instruction, \h0FFF)
  IN  CASE nibbles = << 0, 0, 14, 0 >> -> execute_00e0(s)
        [] nibbles = << 0, 0, 14, 14 >> -> execute_00ee(s)
        [] n0 = 1 -> execute_1nnn(s, nnn)
        [] n0 = 2 -> execute_2nnn(s, nnn)
        [] n0 = 3 -> execute_3xnn(s, x, nn)
        [] n0 = 4 -> execute_4xnn(s, x, nn)
        [] n0 = 5 /\ n = 0 -> execute_5xy0(s, x, y)
        [] n0 = 6 -> execute_6xnn(s, x, nn)
        [] n0 = 7 -> execute_7xnn(s, x, nn)
        [] n0 = 8 /\ n = 0 -> execute_8xy0(s, x, y)
        [] n0 = 8 /\ n = 1 -> execute_8xy1(s, x, y)
        [] n0 = 8 /\ n = 2 -> execute_8xy2(s, x, y)
        [] n0 = 8 /\ n = 3 -> execute_8xy3(s, x, y)
        [] n0 = 8 /\ n = 4 -> execute_8xy4(s, x, y)
        [] n0 = 8 /\ n = 5 -> execute_8xy5(s, x, y)
        [] n0 = 8 /\ n = 6 -> execute_8xy6(s, x, y)
        [] n0 = 8 /\ n = 7 -> execute_8xy7(s, x, y)
        [] n0 = 8 /\ n = 14 -> execute_8xye(s, x, y)
        [] n0 = 10 -> execute_annn(s, nnn)
        [] n0 = 11 -> execute_bnnn(s, nnn)
        [] n0 = 12 -> execute_cxnn(s, x, nn, random)
        [] n0 = 13 -> execute_dxyn(s, x, y, n)
        [] n0 = 14 /\ y = 9 /\ n = 14 -> execute_ex9e(s, x)
        [] n0 = 14 /\ y = 10 /\ n = 1 -> execute_exa1(s, x)
        [] n0 = 15 /\ y = 0 /\ n = 7 -> execute_fx07(s, x)
        [] n0 = 15 /\ y = 1 /\ n = 5 -> execute_fx15(s, x)
        [] n0 = 15 /\ y = 1 /\ n = 8 -> execute_fx18(s, x)
        [] n0 = 15 /\ y = 1 /\ n = 14 -> execute_fx1e(s, x)
        [] n0 = 15 /\ y = 0 /\ n = 10 -> execute_fx0a(s, x)
        [] n0 = 15 /\ y = 2 /\ n = 9 -> execute_fx29(s, x)
        [] n0 = 15 /\ y = 3 /\ n = 3 -> execute_fx33(s, x)
        [] n0 = 15 /\ y = 5 /\ n = 5 -> execute_fx55(s, x)
        [] n0 = 15 /\ y = 6 /\ n = 5 -> execute_fx65(s, x)
        [] n0 = 9 /\ n = 0 -> execute_9xy0(s, x, y)
        [] OTHER -> Panics(s, NotYetImplemented)

\* apply_next_instruction with Stay leaving the advanced program counter.
apply_next_instruction_no_rewind(s, next_instruction) ==
  CASE next_instruction.kind = "Next" -> s.pc
    [] next_instruction.kind = "Skip" -> s.pc + 2
    [] next_instruction.kind = "Jump" -> next_instruction.addr
    [] next_instruction.kind = "Stay" -> s.pc

\* The last statement of tick: the program counter the directive gives.
apply_next_instruction(s, next_instruction) ==
  CASE next_instruction.kind = "Next" -> s.pc
    [] next_instruction.kind = "Skip" -> s.pc + 2
    [] next_instruction.kind = "Jump" -> next_instruction.addr
    [] next_instruction.kind = "Stay" -> s.pc - 2

\* The bytes rand::thread_rng().gen() can give where the instruction draws one.
RandomBytes(instruction) ==
  IF decode_instruction_into_nibbles(instruction)[1] = 12 THEN U8 ELSE {0}

\* The words the claims use to name what the last instruction was.
IsOp(instruction, n0, n2, n3) ==
  LET nibbles == decode_instruction_into_nibbles(instruction)
  IN  nibbles[1] = n0 /\ nibbles[3] = n2 /\ nibbles[4] = n3
IsCall(instruction) == decode_instruction_into_nibbles(instruction)[1] = 2
IsReturn(instruction) == instruction = \h00EE
IsDraw(instruction) == decode_instruction_into_nibbles(instruction)[1] = 13
IsKeyWait(instruction) == IsOp(instruction, 15, 0, 10)
IsSetDelay(instruction) == IsOp(instruction, 15, 1, 5)
IsSetSound(instruction) == IsOp(instruction, 15, 1, 8)
IsBcd(instruction) == IsOp(instruction, 15, 3, 3)
IsStore(instruction) == IsOp(instruction, 15, 5, 5)
IsLoad(instruction) == IsOp(instruction, 15, 6, 5)
XOf(instruction) == decode_instruction_into_nibbles(instruction)[2]
YOf(instruction) == decode_instruction_into_nibbles(instruction)[3]
NOf(instruction) == decode_instruction_into_nibbles(instruction)[4]

\* The 16 bytes of memory from address a on (-1 past the end of memory).
BytesAt(mem, a) == [k \in 0..15 |-> IF a + k < RAM_SIZE THEN at(mem, a + k) ELSE -1]

(***************************************************************************)
(* Chip8::new.                                                             *)
(***************************************************************************)
new_memory == copy_from_slice(<< >>, FONT_INITIAL_POSITION, FONT_SET)

NoStore == [live |-> FALSE, addr |-> 0, x |-> 0, vals |-> [k \in 0..15 |-> 0]]

Init ==
  /\ memory = new_memory
  /\ screen = {}
  /\ pc = \h200
  /\ i = 0
  /\ stack = << >>
  /\ delay_timer = 0
  /\ sound_timer = 0
  /\ v = [k \in 0..15 |-> 0]
  /\ should_redraw = FALSE
  /\ keypad = [previous_frame_keys |-> NoKeys, current_frame_keys |-> NoKeys]
  /\ host_pc = "load_rom"
  /\ ticks_done = 0
  /\ fault = "none"
  /\ overflow_checks = "unobserved"
  /\ hist = [instruction |-> -1, at |-> 0, next |-> "none", addr |-> 0,
             repeat |-> FALSE,
             v |-> [k \in 0..15 |-> 0], i |-> 0, screen |-> {}, stack |-> << >>,
             keypad |-> [previous_frame_keys |-> NoKeys, current_frame_keys |-> NoKeys],
             bytes |-> [k \in 0..15 |-> 0],
             calls |-> 0, returns |-> 0, sites |-> << >>,
             delay_set |-> -1, delay_frames |-> 0,
             sound_set |-> -1, sound_frames |-> 0,
             stored |-> NoStore,
             rendered |-> {},
             frames |-> 0]

(***************************************************************************)
(* Chip8::load_rom, called once by main before its loop.                   *)
(***************************************************************************)
load_rom(mem, rom) ==
  LET start == \h200
  IN  copy_from_slice(mem, start, rom)

LoadRom(roms) ==
  /\ host_pc = "load_rom"
  /\ fault = "none"
  /\ \E rom \in roms :
       IF \h200 + Len(rom) > RAM_SIZE
       THEN /\ fault' = IndexOutOfBounds
            /\ UNCHANGED << machine, host_pc, ticks_done, overflow_checks, hist >>
       ELSE /\ memory' = load_rom(memory, rom)
            /\ host_pc' = "update_keys"
            /\ UNCHANGED << screen, pc, i, stack, delay_timer, sound_timer, v,
                            should_redraw, keypad, ticks_done, fault,
                            overflow_checks, hist >>

(***************************************************************************)
(* The head of main's loop: the events of the frame give new_frame_keys,   *)
(* which Keypad::update_keys takes; a Quit event leaves the loop.          *)
(***************************************************************************)
PressableKeys == (16 - NumKeys)..15

Snapshots == {[k \in 0..15 |-> k \in down] : down \in SUBSET PressableKeys}

UpdateKeys ==
  /\ host_pc = "update_keys"
  /\ fault = "none"
  /\ hist.frames < MaxFrames
  /\ \E new_frame_keys \in Snapshots :
       keypad' = update_keys(keypad, new_frame_keys)
  /\ host_pc' = "tick"
  /\ ticks_done' = 0
  /\ UNCHANGED << memory, screen, pc, i, stack, delay_timer, sound_timer, v,
                  should_redraw, fault, overflow_checks, hist >>

Quit ==
  /\ host_pc = "update_keys"
  /\ fault = "none"
  /\ host_pc' = "exit"
  /\ UNCHANGED << machine, ticks_done, fault, overflow_checks, hist >>

(***************************************************************************)
(* The tail of main's loop: draw the screen if needed and lower the flag.  *)
(* hist.rendered is the display main drew last (none lit before the first).*)
(***************************************************************************)
Redraw ==
  /\ host_pc = "redraw"
  /\ fault = "none"
  /\ should_redraw' = FALSE
  /\ host_pc' = "update_keys"
  /\ hist' = [hist EXCEPT !.frames = @ + 1,
                          !.delay_frames = @ + 1,
                          !.sound_frames = @ + 1,
                          !.rendered = IF should_redraw THEN screen ELSE @]
  /\ UNCHANGED << memory, screen, pc, i, stack, delay_timer, sound_timer, v,
                  keypad, ticks_done, fault, overflow_checks >>

(***************************************************************************)
(* Chip8::tick, one of the instructions_per_frame calls of a frame.        *)
(***************************************************************************)
\* What the step leaves in hist: the instruction, its address (at), the
\* directive, whether it repeats the instruction before it, the state it
\* started from (v, i, screen, stack, keypad, the 16 bytes at I), the calls
\* and returns so far with the addresses of the calls not yet returned from
\* (sites), the values the timers were last set to with the frames ended
\* since, and the last block of registers stored by FX55.
Record(instruction, r) ==
  [hist EXCEPT
     !.instruction = instruction,
     !.at = pc,
     !.next = r.next.kind,
     !.addr = r.next.addr,
     !.repeat = (instruction = hist.instruction),
     !.v = v,
     !.i = i,
     !.screen = screen,
     !.stack = stack,
     !.keypad = keypad,
     !.bytes = BytesAt(memory, i),
     !.calls = IF IsCall(instruction) THEN @ + 1 ELSE @,
     !.returns = IF IsReturn(instruction) THEN @ + 1 ELSE @,
     !.sites = IF IsCall(instruction) THEN Append(@, pc)
               ELSE IF IsReturn(instruction) THEN SubSeq(@, 1, Len(@) - 1)
               ELSE @,
     !.delay_set = IF IsSetDelay(instruction) THEN v[XOf(instruction)] ELSE @,
     !.delay_frames = IF IsSetDelay(instruction) THEN 0 ELSE @,
     !.sound_set = IF IsSetSound(instruction) THEN v[XOf(instruction)] ELSE @,
     !.sound_frames = IF IsSetSound(instruction) THEN 0 ELSE @,
     !.stored = IF IsStore(instruction)
                THEN [live |-> TRUE, addr |-> i, x |-> XOf(instruction),
                      vals |-> [k \in 0..15 |-> IF k <= XOf(instruction) THEN v[k] ELSE 0]]
                ELSE IF IsBcd(instruction) THEN NoStore ELSE @]

\* The handler returned: tick sets the program counter and returns.
Completes(instruction, r) ==
  /\ memory' = r.self.memory
  /\ screen' = r.self.screen
  /\ pc' = apply_next_instruction(r.self, r.next)
  /\ i' = r.self.i
  /\ stack' = r.self.stack
  /\ delay_timer' = r.self.delay_timer
  /\ sound_timer' = r.self.sound_timer
  /\ v' = r.self.v
  /\ should_redraw' = r.self.should_redraw
  /\ keypad' = r.self.keypad
  /\ ticks_done' = ticks_done + 1
  /\ host_pc' = IF ticks_done + 1 >= instructions_per_frame THEN "redraw" ELSE "tick"
  /\ hist' = Record(instruction, r)
  /\ UNCHANGED fault

\* tick panicked: the process ends, and with it the machine.
PanicsWith(msg) ==
  /\ fault' = msg
  /\ UNCHANGED << machine, host_pc, ticks_done, overflow_checks, hist >>

Tick ==
  /\ host_pc = "tick"
  /\ fault = "none"
  /\ IF pc + 1 >= RAM_SIZE
     THEN PanicsWith(IndexOutOfBounds)
     ELSE LET instruction == from_be_bytes(at(memory, pc), at(memory, pc + 1))
              self == [memory |-> memory, screen |-> screen, pc |-> pc + 2, i |-> i,
                       stack |-> stack, delay_timer |-> delay_timer,
                       sound_timer |-> sound_timer, v |-> v,
                       should_redraw |-> should_redraw, keypad |-> keypad]
          IN  \E random \in RandomBytes(instruction) :
                LET r == Dispatch(self, instruction, random)
                IN  IF r.fault # "none" THEN PanicsWith(r.fault)
                    ELSE IF r.overflowed
                    THEN \/ /\ overflow_checks = "unobserved"
                            /\ PanicsWith(ArithmeticOverflow)
                         \/ /\ overflow_checks' = "off"
                            /\ Completes(instruction, r)
                    ELSE /\ Completes(instruction, r)
                         /\ UNCHANGED overflow_checks

(***************************************************************************)
(* The programs main loads.  A program is the sequence of the bytes of a   *)
(* ROM file; Bytes lays 16-bit words out big-endian.  Every program below  *)
(* ends by running into bytes that match no opcode, or loops.              *)
(***************************************************************************)
Bytes(words) ==
  [k \in 1..(2 * Len(words)) |->
     IF k % 2 = 1 THEN words[(k + 1) \div 2] \div 256 ELSE words[k \div 2] % 256]

\* The word with first nibble n0, register x and byte nn; and with nibbles n0 x y n.
OpXNN(n0, x, nn) == n0 * 4096 + x * 256 + nn
OpXYN(n0, x, y, n) == n0 * 4096 + x * 256 + y * 16 + n

\* Calls and returns: a call to itself until the stack is full, a return
\* with nothing to return to, and nested calls that return in turn.
CallSelfRom == Bytes(<< \h2200 >>)
ReturnFirstRom == Bytes(<< \h00EE >>)
NestedCallsRom ==
  Bytes(<< \h2206, \h220A, \h1204, \h220A, \h00EE, \h00EE >>)

\* Skips taken and not taken, a jump with offset, the key skips, a random byte.
SkipsRom ==
  Bytes(<< \h6005, \h3005, \h1204, \h4005, \h3006, \h4006, \h120C,
           \h5010, \h9010, \h1212, \hB215, \h0000, \h0000,
           \h00E0, \h610F, \hE19E, \h7201, \hE1A1, \h7301, \hC40F >>)

\* Waits for a key, again and again; and a wait after the first frame.
KeyWaitRom == Bytes(<< \hF30A, \h1200 >>)
LateKeyWaitRom == Bytes(<< \h6101, \h6202, \h6303, \h6404, \h6505, \hF60A, \h7601 >>)

\* Sets the timers to k and reads the delay timer back for ever.
TimerRom(k) == Bytes(<< OpXNN(6, 0, k), \hF015, \hF018, \hF107, \h1206 >>)

FlowRoms ==
  { CallSelfRom, ReturnFirstRom, NestedCallsRom, SkipsRom, KeyWaitRom, LateKeyWaitRom }
    \cup { TimerRom(k) : k \in {1, 3} }

\* Draws: a sprite of n rows at (vx, vy) held in registers x and y, drawn
\* three times in a row, moved right by 3, and drawn twice in a row over
\* what the third draw left.  The sprite follows the code.
SpriteData ==
  << \hFF, \hA5, \h81, \h01, \h80, \h3C, \hC3, \h18,
     \h7E, \h55, \hAA, \h0F, \hF1, \h99, \h66 >>

DrawRom(x, y, vx, vy, n) ==
  Bytes(<< OpXNN(6, x, vx), OpXNN(6, y, vy), \hA212,
           OpXYN(13, x, y, n), OpXYN(13, x, y, n), OpXYN(13, x, y, n),
           OpXNN(7, x, 3), OpXYN(13, x, y, n), OpXYN(13, x, y, n) >>)
    \o SpriteData

DrawRegisters == { << 0, 1 >>, << 15, 0 >>, << 3, 15 >>, << 2, 2 >> }
DrawOrigins ==
  { << 0, 0 >>, << 5, 17 >>, << 60, 30 >>, << 63, 31 >>, << 126, 61 >>, << 255, 255 >> }
DrawHeights == { 0, 1, 3, 15 }

DrawRoms ==
  { DrawRom(r[1], r[2], o[1], o[2], n) :
      r \in DrawRegisters, o \in DrawOrigins, n \in DrawHeights }

\* Block transfer: the registers take the font's bytes, V0..VX go to memory
\* at base, the registers take other bytes, and V0..VX come back from base.
StoreLoadRom(x, base) ==
  Bytes(<< \hA050, \hFF65, OpXNN(10, base \div 256, base % 256), OpXNN(15, x, \h55),
           \hA05B, \hFF65, OpXNN(10, base \div 256, base % 256), OpXNN(15, x, \h65) >>)

StoreBases == { \h300, \hFF0, \hFF8 }

StoreLoadRoms == { StoreLoadRom(x, base) : x \in 0..15, base \in StoreBases }

\* Decimal digits: VX takes a value, I an address, and FX33 writes there.
BcdRom(x, value, base) ==
  Bytes(<< OpXNN(6, x, value), OpXNN(10, base \div 256, base % 256), OpXNN(15, x, \h33) >>)

BcdRegisters == { 0, 7, 15 }
BcdBases == { \h300 }

BcdRoms ==
  { BcdRom(x, value, base) : x \in BcdRegisters, value \in U8, base \in BcdBases }
    \cup { BcdRom(2, 146, base) : base \in { \hFFD, \hFFE } }

\* Draws the font's 0 in the first frame and clears the screen in the second.
ClearRom == Bytes(<< \hA050, \hD005, \h6000, \h6000, \h6000, \h00E0 >>)

Roms == FlowRoms \cup DrawRoms \cup StoreLoadRoms \cup BcdRoms \cup { ClearRom }

(***************************************************************************)
(* The specification.                                                      *)
(***************************************************************************)
Next ==
  \/ LoadRom(Roms)
  \/ UpdateKeys
  \/ Quit
  \/ Tick
  \/ Redraw

Spec == Init /\ [][Next]_vars

(***************************************************************************)
(* Claims.                                                                 *)
(***************************************************************************)
\* The address immediate of an instruction word, and bit k of a byte.
NNNOf(instruction) == instruction % 4096
Bit(b, k) == (b \div (2 ^ k)) % 2
Stepped == hist.instruction # -1

\* C1: every completed step leaves the program counter at the address of
\* the instruction plus 2 after Next, plus 4 after Skip, at addr after
\* Jump(addr) and at the address of the instruction after Stay; the program
\* counter a call pushes is the advanced one; Stay comes from FX0A alone.
C1_ProgramCounter ==
  Stepped =>
    /\ hist.next \in {"Next", "Skip", "Jump", "Stay"}
    /\ hist.next = "Next" => pc = hist.at + 2
    /\ hist.next = "Skip" => pc = hist.at + 4
    /\ hist.next = "Jump" => pc = hist.addr
    /\ hist.next = "Stay" => pc = hist.at /\ IsKeyWait(hist.instruction)
    /\ IsCall(hist.instruction) => stack[Len(stack)] = hist.at + 2

\* C1, witness: a key wait in the second frame found no key and stayed.
C1_Witness ==
  /\ Stepped
  /\ hist.next = "Stay"
  /\ IsKeyWait(hist.instruction)
  /\ pc = hist.at
  /\ hist.frames >= 1

\* C2: a call pushes the address of the instruction after it and jumps to
\* NNN; a return pops the address pushed last and jumps to it; no other
\* instruction touches the stack; so the stack holds, in order, the
\* addresses after the calls not yet returned from, and its depth is the
\* number of calls minus the number of returns.
C2_CallsAndReturns ==
  Stepped =>
    /\ IsCall(hist.instruction) =>
         /\ stack = Append(hist.stack, hist.at + 2)
         /\ pc = NNNOf(hist.instruction)
    /\ IsReturn(hist.instruction) =>
         /\ Len(hist.stack) > 0
         /\ pc = hist.stack[Len(hist.stack)]
         /\ stack = SubSeq(hist.stack, 1, Len(hist.stack) - 1)
    /\ ~IsCall(hist.instruction) /\ ~IsReturn(hist.instruction) => stack = hist.stack
    /\ Len(stack) = Len(hist.sites)
    /\ \A k \in 1..Len(stack) : stack[k] = hist.sites[k] + 2
    /\ Len(stack) = hist.calls - hist.returns

\* C2, witness: the second of two nested calls has returned to the
\* instruction after it, and the first is still to return.
C2_Witness ==
  /\ Stepped
  /\ IsReturn(hist.instruction)
  /\ hist.calls = 2
  /\ hist.returns = 1
  /\ Len(hist.stack) = 2
  /\ pc = hist.stack[2]
  /\ pc # hist.stack[1]
  /\ stack = << hist.stack[1] >>

\* The instruction at the program counter (-1 when it is outside memory),
\* and the state of a tick that panicked on it: the process ended there.
Fetched == IF pc + 1 >= RAM_SIZE THEN -1 ELSE from_be_bytes(at(memory, pc), at(memory, pc + 1))
TickFailed == host_pc = "tick" /\ fault # "none"

\* C3: the stack depth stays within 0..16, a call on a full stack makes
\* the step fail with the failure value StackOverflow, and a return on an
\* empty stack makes it fail with the failure value StackUnderflow.
C3_TypedStackFailures ==
  /\ Len(stack) \in 0..STACK_SIZE
  /\ TickFailed /\ IsCall(Fetched) /\ Len(stack) = STACK_SIZE => fault = "StackOverflow"
  /\ TickFailed /\ IsReturn(Fetched) /\ Len(stack) = 0 => fault = "StackUnderflow"

\* C3, what the code does: 16 nested calls complete, the depth stays within
\* 0..16, and the 17th call and the return on an empty stack panic.
C3_StackPanics ==
  /\ Len(stack) \in 0..STACK_SIZE
  /\ TickFailed /\ IsCall(Fetched) => Len(stack) = STACK_SIZE /\ fault = CapacityExceeded
  /\ TickFailed /\ IsReturn(Fetched) => Len(stack) = 0 /\ fault = UnwrapOnNone

\* C3: the 17th nested call has panicked.
C3_SeventeenthCall ==
  TickFailed /\ IsCall(Fetched) /\ Len(stack) = STACK_SIZE /\ hist.calls = STACK_SIZE

\* The keys that went from up to down, and from down to up, between the two
\* snapshots of a keypad.
PressedEdge(kp) == {k \in 0..15 : ~kp.previous_frame_keys[k] /\ kp.current_frame_keys[k]}
ReleasedEdge(kp) == {k \in 0..15 : kp.previous_frame_keys[k] /\ ~kp.current_frame_keys[k]}
Lowest(keys) == CHOOSE k \in keys : \A h \in keys : k <= h
WaitCompleted == Stepped /\ IsKeyWait(hist.instruction) /\ hist.next = "Next"

\* C4: a key wait completes only on a step where some key has gone from
\* up to down (or, under the release policy, from down to up) between the
\* two snapshots, and VX is then the lowest such key.
C4_WaitCompletesOnEdge ==
  WaitCompleted =>
    \/ /\ PressedEdge(hist.keypad) # {}
       /\ v[XOf(hist.instruction)] = Lowest(PressedEdge(hist.keypad))
    \/ /\ ReleasedEdge(hist.keypad) # {}
       /\ v[XOf(hist.instruction)] = Lowest(ReleasedEdge(hist.keypad))

\* C4, what the code does: a key wait completes exactly when some key is
\* down in the current snapshot, and VX is then the lowest key that is down.
C4_WaitCompletesOnLevel ==
  Stepped /\ IsKeyWait(hist.instruction) =>
    LET down == {k \in 0..15 : hist.keypad.current_frame_keys[k]}
    IN  IF down = {} THEN hist.next = "Stay"
        ELSE hist.next = "Next" /\ v[XOf(hist.instruction)] = Lowest(down)

\* C4: a key wait has completed on a key that is down in both snapshots,
\* while no key changed between them.
C4_HeldKeyCompletes ==
  /\ WaitCompleted
  /\ hist.keypad.previous_frame_keys = hist.keypad.current_frame_keys
  /\ hist.keypad.current_frame_keys[v[XOf(hist.instruction)]]

\* C5: a step on a key wait leaves the whole machine as it was while no key
\* has gone from up to down (or, under the release policy, from down to up);
\* when one has, VX takes the lowest such key, the program counter advances
\* by 2 and nothing else changes.
KeyWaitStep == host_pc = "tick" /\ fault = "none" /\ IsKeyWait(Fetched) /\ fault' = "none"

KeyWaitFrame(edge) ==
  IF edge = {} THEN UNCHANGED machine
  ELSE /\ v' = [v EXCEPT ![XOf(Fetched)] = Lowest(edge)]
       /\ pc' = pc + 2
       /\ UNCHANGED << memory, screen, i, stack, delay_timer, sound_timer,
                       should_redraw, keypad >>

C5_WaitLeavesStateUntilEdge ==
  [][KeyWaitStep => KeyWaitFrame(PressedEdge(keypad)) \/ KeyWaitFrame(ReleasedEdge(keypad))]_vars

\* C5, what the code does: the same with the keys that are down in the
\* current snapshot in the place of the keys that changed.
C5_WaitLeavesStateUntilLevel ==
  [][KeyWaitStep => KeyWaitFrame({k \in 0..15 : keypad.current_frame_keys[k]})]_vars

\* C6: once per frame the timers that are not 0 go down by one, so a timer
\* set to k reads 0 once k whole frames have followed the frame that set it
\* (hist counts the frames ended since, the frame of the set included).
C6_TimersRunDown ==
  /\ hist.delay_set >= 0 /\ hist.delay_frames > hist.delay_set => delay_timer = 0
  /\ hist.sound_set >= 0 /\ hist.sound_frames > hist.sound_set => sound_timer = 0

\* C6, what the code does: no operation lowers a timer; a timer changes
\* only in the step of FX15 (delay) or FX18 (sound) that sets it, and
\* keeps the value it was set to whatever the number of frames.
C6_TimersOnlySet ==
  [][/\ delay_timer' # delay_timer =>
          host_pc = "tick" /\ IsSetDelay(Fetched) /\ delay_timer' = v[XOf(Fetched)]
     /\ sound_timer' # sound_timer =>
          host_pc = "tick" /\ IsSetSound(Fetched) /\ sound_timer' = v[XOf(Fetched)]]_vars

\* C6: a delay timer set to 1 still reads 1 two frames later.
C6_TimerStuck ==
  hist.delay_set = 1 /\ hist.delay_frames >= 2 /\ delay_timer = 1 /\ v[1] = 1

\* The last completed step was a draw: its origin, its height, and the cells
\* the claim says it toggles, from the registers, I and memory it started from.
Drew == Stepped /\ IsDraw(hist.instruction)
DrawX0 == hist.v[XOf(hist.instruction)] % 64
DrawY0 == hist.v[YOf(hist.instruction)] % 32
DrawN == NOf(hist.instruction)
DrawToggled ==
  {(DrawY0 + rc[1]) * 64 + (DrawX0 + rc[2]) : rc \in
     {rc \in (0..(DrawN - 1)) \X (0..7) :
        /\ DrawX0 + rc[2] < 64
        /\ DrawY0 + rc[1] < 32
        /\ Bit(hist.bytes[rc[1]], 7 - rc[2]) = 1}}

\* C7: a draw toggles exactly the cells at column x0 + c, row y0 + r, for
\* r below N and c below 8, that lie on the screen and whose bit 7 - c of
\* memory[I + r] is 1, where (x0, y0) = (VX mod 64, VY mod 32); every other
\* cell keeps its value; VF is 1 if a toggled cell was on before the draw
\* and 0 otherwise.
C7_Draw ==
  Drew =>
    LET toggled == DrawToggled
        before == hist.screen
    IN  /\ screen = {p \in 0..(PIXELS_PER_SCREEN - 1) : (p \in before) # (p \in toggled)}
        /\ v[15] = IF \E p \in toggled : p \in before THEN 1 ELSE 0

\* C7, witness: a draw whose sprite passes the right and the bottom edge,
\* that turned a cell off (VF = 1) and another on, and left the first
\* column and the first row as they were.
C7_Witness ==
  /\ Drew
  /\ DrawX0 + 8 > 64
  /\ DrawY0 + DrawN > 32
  /\ v[15] = 1
  /\ hist.screen \ screen # {}
  /\ screen \ hist.screen # {}
  /\ \A p \in screen \cup hist.screen :
       (p % 64 = 0 \/ p \div 64 = 0) => (p \in screen /\ p \in hist.screen)

\* A step that completes the instruction the step before completed: a draw
\* that finds VX, VY, I and the rows of the sprite as the draw before it did.
SameDrawAgain ==
  /\ Drew
  /\ host_pc = "tick"
  /\ fault = "none"
  /\ fault' = "none"
  /\ Fetched = hist.instruction
  /\ v[XOf(Fetched)] = hist.v[XOf(Fetched)]
  /\ v[YOf(Fetched)] = hist.v[YOf(Fetched)]
  /\ i = hist.i
  /\ \A r \in 0..(DrawN - 1) : BytesAt(memory, i)[r] = hist.bytes[r]

\* The draw before was of one row with all 8 bits set, on cells that were off.
AllSetRowOnOff ==
  /\ DrawN = 1
  /\ hist.bytes[0] = 255
  /\ DrawToggled \cap hist.screen = {}

\* C8: the second of two draws in a row by the same instruction, with VX,
\* VY, I and the sprite bytes the same at both, leaves the display as it
\* was before the first; for a row of 8 set bits drawn on cells that were
\* off, VF is 0 after the first draw and 1 after the second.
C8_DrawTwiceRestores ==
  [][SameDrawAgain =>
       /\ screen' = hist.screen
       /\ AllSetRowOnOff => v[15] = 0 /\ v'[15] = 1]_vars

\* C8, witness: the second draw of a row of 8 set bits is done: the cells
\* the first turned on are off again, the display is as it was, VF is 1.
C8_Witness ==
  /\ Drew
  /\ hist.repeat
  /\ DrawN = 1
  /\ hist.bytes[0] = 255
  /\ DrawToggled # {}
  /\ DrawToggled \subseteq hist.screen
  /\ DrawToggled \cap screen = {}
  /\ v[15] = 1
  /\ XOf(hist.instruction) # 15
  /\ YOf(hist.instruction) # 15

\* The last completed step was a store (FX55), a load (FX65).
Stored == Stepped /\ IsStore(hist.instruction)
Loaded == Stepped /\ IsLoad(hist.instruction)

\* C9: FX55 leaves V0..VX in memory[I..I+X] and FX65 leaves memory[I..I+X]
\* in V0..VX, for the I the step started from; a load from the address of
\* the last store, with the same X, gives V0..VX the values stored; both
\* add X + 1 to I and leave the registers above VX as they were.
C9_StoreAndLoad ==
  /\ Stored =>
       LET x == XOf(hist.instruction) IN
       /\ hist.i + x < RAM_SIZE
       /\ \A k \in 0..x : at(memory, hist.i + k) = hist.v[k]
       /\ i = hist.i + x + 1
       /\ v = hist.v
  /\ Loaded =>
       LET x == XOf(hist.instruction) IN
       /\ hist.i + x < RAM_SIZE
       /\ \A k \in 0..x : v[k] = hist.bytes[k] /\ v[k] = at(memory, hist.i + k)
       /\ \A k \in (x + 1)..15 : v[k] = hist.v[k]
       /\ i = hist.i + x + 1
       /\ (hist.stored.live /\ hist.stored.addr = hist.i /\ hist.stored.x = x) =>
            \A k \in 0..x : v[k] = hist.stored.vals[k]

\* C9, witness: V0..V7 are back from the address they were stored at after
\* the registers had taken other values, V8 is as the load found it, and I
\* is 8 past the address.
C9_Witness ==
  /\ Loaded
  /\ XOf(hist.instruction) = 7
  /\ hist.stored.live
  /\ hist.stored.x = 7
  /\ hist.stored.addr = hist.i
  /\ \E k \in 0..7 : hist.v[k] # hist.stored.vals[k]
  /\ \A k \in 0..7 : v[k] = hist.stored.vals[k]
  /\ v[8] = hist.v[8]
  /\ v[8] # at(memory, hist.i + 8)
  /\ i = hist.i + 8

\* The last completed step was FX33, and the digits it left at the I it
\* started from are those of the VX it started from.
DidBcd == Stepped /\ IsBcd(hist.instruction)
BcdDigits ==
  LET vx == hist.v[XOf(hist.instruction)] IN
  /\ at(memory, hist.i) = vx \div 100
  /\ at(memory, hist.i + 1) = (vx \div 10) % 10
  /\ at(memory, hist.i + 2) = vx % 10

\* C10: FX33 leaves the hundreds, tens and units digits of VX in memory[I],
\* memory[I+1] and memory[I+2], and leaves I and every register as they
\* were.
C10_BcdChangesOnlyMemory ==
  DidBcd => BcdDigits /\ i = hist.i /\ v = hist.v

\* C10, what the code does: FX33 leaves the three digits and the registers
\* as said, and adds X + 1 to I as the store and the load do.
C10_BcdAdvancesIndex ==
  DidBcd => BcdDigits /\ v = hist.v /\ i = hist.i + XOf(hist.instruction) + 1

\* C10: FX33 on V0 = 146 with I = 0x300 left 1, 4, 6 there and I at 0x301.
C10_IndexMoved ==
  /\ DidBcd
  /\ XOf(hist.instruction) = 0
  /\ hist.v[0] = 146
  /\ hist.i = \h300
  /\ at(memory, \h300) = 1 /\ at(memory, \h301) = 4 /\ at(memory, \h302) = 6
  /\ i = \h301

(***************************************************************************)
(* The arithmetic programs: VX takes a, VY takes b, and one 8XYn follows.  *)
(* The values are the ends of the u8 range, the powers of two around the   *)
(* sign bit and the nibble, and values between; the register pairs have X  *)
(* or Y at F, X = Y, and neither.                                          *)
(***************************************************************************)
AluValues == { 0, 1, 15, 16, 100, 127, 128, 254, 255 }
AluRegisters == { << 0, 1 >>, << 15, 1 >>, << 1, 15 >>, << 3, 3 >>, << 15, 15 >> }
AluOps == { 1, 2, 3, 4, 5, 6, 7, 14 }

AluRom(op, x, y, a, b) ==
  Bytes(<< OpXNN(6, x, a), OpXNN(6, y, b), OpXYN(8, x, y, op) >>)

\* The eight operations one after the other on V0 and V1, over two frames.
AluSequenceRom ==
  Bytes(<< \h60FF, \h610F, \h8014, \h8015, \h8017, \h8016, \h801E,
           \h8011, \h8012, \h8013 >>)

AluRoms ==
  { AluRom(op, r[1], r[2], a, b) :
      op \in AluOps, r \in AluRegisters, a \in AluValues, b \in AluValues }
    \cup { AluSequenceRom }

NextAlu ==
  \/ LoadRom(AluRoms)
  \/ UpdateKeys
  \/ Quit
  \/ Tick
  \/ Redraw

SpecAlu == Init /\ [][NextAlu]_vars

\* The last completed step was 8XYn for an n of ops; its registers and the
\* values they held when the step started.
DidAlu(ops) ==
  /\ Stepped
  /\ decode_instruction_into_nibbles(hist.instruction)[1] = 8
  /\ NOf(hist.instruction) \in ops
AluVX == hist.v[XOf(hist.instruction)]
AluVY == hist.v[YOf(hist.instruction)]

\* C11: 8XY4 leaves VF = 1 exactly when VX + VY exceeds 255; 8XY5 leaves
\* VF = 0 exactly when VX < VY and 8XY7 exactly when VY < VX, and VF = 1
\* otherwise; when X is not F, VX is the sum or the difference modulo 256
\* (when X is F, VF holds the flag).
C11_CarryAndBorrow ==
  DidAlu({4, 5, 7}) =>
    LET n == NOf(hist.instruction)
        x == XOf(hist.instruction)
        flag == CASE n = 4 -> IF AluVX + AluVY > 255 THEN 1 ELSE 0
                  [] n = 5 -> IF AluVX < AluVY THEN 0 ELSE 1
                  [] n = 7 -> IF AluVY < AluVX THEN 0 ELSE 1
        exact == CASE n = 4 -> AluVX + AluVY
                   [] n = 5 -> AluVX - AluVY
                   [] n = 7 -> AluVY - AluVX
        result == IF exact > 255 THEN exact - 256
                  ELSE IF exact < 0 THEN exact + 256 ELSE exact
    IN  /\ v[15] = flag
        /\ x # 15 => v[x] = result

\* C11, witness: 8XY7 on VX = 128 and VY = 127, X not F, left the borrow
\* flag 0 and VX = 255.
C11_Witness ==
  /\ DidAlu({7})
  /\ XOf(hist.instruction) # 15
  /\ AluVX = 128
  /\ AluVY = 127
  /\ v[15] = 0
  /\ v[XOf(hist.instruction)] = 255

\* C12: 8XY6 leaves VX = VY div 2 and VF = bit 0 of VY; 8XYE leaves
\* VX = 2 * VY mod 256 and VF = bit 7 of VY, for the VY the step started
\* from and whatever VX was (when X is F, VF holds the bit shifted out).
C12_Shifts ==
  DidAlu({6, 14}) =>
    LET n == NOf(hist.instruction)
        x == XOf(hist.instruction)
    IN  /\ v[15] = IF n = 6 THEN AluVY % 2 ELSE AluVY \div 128
        /\ x # 15 => v[x] = IF n = 6 THEN AluVY \div 2 ELSE (2 * AluVY) % 256

\* C12, witness: 8XYE on VY = 255 while VX was 1, X not F, left VX = 254
\* and VF = 1.
C12_Witness ==
  /\ DidAlu({14})
  /\ XOf(hist.instruction) # 15
  /\ AluVX = 1
  /\ AluVY = 255
  /\ v[XOf(hist.instruction)] = 254
  /\ v[15] = 1

\* A step that completes 8XY1, 8XY2 or 8XY3, and bit k of what the opcode
\* n makes of the bytes a and b.
BitwiseStep ==
  /\ host_pc = "tick"
  /\ fault = "none"
  /\ fault' = "none"
  /\ pc + 1 < RAM_SIZE
  /\ decode_instruction_into_nibbles(Fetched)[1] = 8
  /\ NOf(Fetched) \in {1, 2, 3}
BitwiseBit(n, a, b, k) ==
  CASE n = 1 -> IF Bit(a, k) = 1 \/ Bit(b, k) = 1 THEN 1 ELSE 0
    [] n = 2 -> IF Bit(a, k) = 1 /\ Bit(b, k) = 1 THEN 1 ELSE 0
    [] n = 3 -> IF Bit(a, k) # Bit(b, k) THEN 1 ELSE 0

\* C13: 8XY1, 8XY2 and 8XY3 leave VF = 0; when X is not F, VX is the
\* bitwise OR, AND, XOR of the VX and VY the step started from; every other
\* register, I, memory, the stack, the timers and the display stay as they
\* were.
C13_Bitwise ==
  [][BitwiseStep =>
       LET x == XOf(Fetched)
           y == YOf(Fetched)
       IN  /\ v'[15] = 0
           /\ x # 15 =>
                /\ v'[x] \in U8
                /\ \A k \in 0..7 : Bit(v'[x], k) = BitwiseBit(NOf(Fetched), v[x], v[y], k)
           /\ \A k \in 0..14 : k # x => v'[k] = v[k]
           /\ UNCHANGED << i, memory, stack, delay_timer, sound_timer, screen >>]_vars

\* C13, witness: 8XY3 on VX = 255 and VY = 15 = VF, X not F, left VX = 240
\* and VF = 0.
C13_Witness ==
  /\ DidAlu({3})
  /\ XOf(hist.instruction) # 15
  /\ YOf(hist.instruction) = 15
  /\ AluVX = 255
  /\ AluVY = 15
  /\ v[XOf(hist.instruction)] = 240
  /\ v[15] = 0

(***************************************************************************)
(* The programs that end in a panic of the crate.                          *)
(***************************************************************************)
\* A jump with offset to nnn + v0; a jump to the last byte of memory; and
\* a program that writes 6000 at 0xFFE, jumps there and runs past it.
JumpOffsetRom(v0, nnn) == Bytes(<< OpXNN(6, 0, v0), 11 * 4096 + nnn >>)
JumpLastByteRom == Bytes(<< \h1FFF >>)
RunPastEndRom == Bytes(<< \h6060, \h6100, \hAFFE, \hF155, \h1FFE >>)

FetchRoms ==
  { JumpOffsetRom(255, \hFFF), JumpOffsetRom(1, \hFFF), JumpOffsetRom(0, \hFFF),
    JumpOffsetRom(16, \h300), JumpLastByteRom, RunPastEndRom }

\* C14: a tick with the program counter or the byte after it at or beyond
\* the size of memory fails with the failure value FetchOutOfBounds.
C14_TypedFetchFailure ==
  TickFailed /\ pc + 1 >= RAM_SIZE => fault = "FetchOutOfBounds"

\* C14, what the code does: the index of memory in the fetch panics.
C14_FetchPanics ==
  TickFailed /\ pc + 1 >= RAM_SIZE => fault = IndexOutOfBounds

\* C14: BFFF with V0 = 255 has sent the program counter to 0x10FE, and the
\* tick there has panicked.
C14_JumpedOutOfMemory ==
  /\ TickFailed
  /\ hist.instruction = \hBFFF
  /\ hist.v[0] = 255
  /\ pc = \h10FE
  /\ fault = IndexOutOfBounds

\* C14: the instruction at 0xFFE has completed, and the tick at 0x1000 has
\* panicked.
C14_RanPastEnd ==
  /\ TickFailed
  /\ hist.at = \hFFE
  /\ hist.next = "Next"
  /\ pc = RAM_SIZE
  /\ fault = IndexOutOfBounds

\* One word that matches no arm of the dispatch.
UnknownWords ==
  { \h0000, \h00E1, \h00EF, \h0123, \h5011, \h5AB1, \h8008, \h812F, \h8AB9,
    \h9011, \hE000, \hE19F, \hE1A0, \hF000, \hF00B, \hF1FF, \hF156 }
UnknownRoms == { Bytes(<< w >>) : w \in UnknownWords }

\* I takes base, and a store, a load, the decimal digits or a draw of n
\* rows at (0, 0) follows; and a store after FX1E took I past memory.
TransferRom(base, x, low) ==
  Bytes(<< OpXNN(10, base \div 256, base % 256), OpXNN(15, x, low) >>)
DrawAtRom(base, n) ==
  Bytes(<< OpXNN(10, base \div 256, base % 256), OpXYN(13, 0, 0, n) >>)
StoreFarRom == Bytes(<< \hAFFF, \h60FF, \hF01E, \hF055 >>)

RangeBases == { \hFF0, \hFFD, \hFFE, \hFFF }
RangeRoms ==
  { TransferRom(base, x, low) :
      base \in RangeBases, x \in { 0, 1, 2, 15 }, low \in { \h33, \h55, \h65 } }
    \cup { DrawAtRom(base, n) : base \in RangeBases, n \in { 0, 1, 2, 3, 15 } }
    \cup { StoreFarRom }

\* VX takes a value, and a key skip or the font address follows; and FX1E
\* on the highest I that ANNN gives.
KeySkipRom(x, value, low) == Bytes(<< OpXNN(6, x, value), OpXNN(14, x, low) >>)
FontRom(x, value) == Bytes(<< OpXNN(6, x, value), OpXNN(15, x, \h29) >>)
IndexAddRom == Bytes(<< \hAFFF, \h60FF, \hF01E >>)

RegisterRoms ==
  { KeySkipRom(x, value, low) :
      x \in { 0, 15 }, value \in { 0, 14, 15, 16, 128, 255 }, low \in { \h9E, \hA1 } }
    \cup { FontRom(x, value) : x \in { 0, 15 }, value \in { 0, 15, 51, 52, 255 } }
    \cup { IndexAddRom }

\* The largest program that fits, and one byte more: a jump to itself and
\* bytes that are never run.
MaxRomLen == RAM_SIZE - ROM_INITIAL_POSITION
BigRom(len) == [k \in 1..len |-> IF k = 1 THEN \h12 ELSE IF k = 2 THEN 0 ELSE k % 251]
BigRoms == { BigRom(MaxRomLen), BigRom(MaxRomLen + 1) }

FaultRoms ==
  FetchRoms \cup UnknownRoms \cup RangeRoms \cup RegisterRoms \cup BigRoms
    \cup { CallSelfRom, ReturnFirstRom }

NextFaults ==
  \/ LoadRom(FaultRoms)
  \/ UpdateKeys
  \/ Quit
  \/ Tick
  \/ Redraw

SpecFaults == Init /\ [][NextFaults]_vars

\* The instruction matches no arm of the match in tick.
Unmatched(instruction) ==
  LET nibbles == decode_instruction_into_nibbles(instruction)
      n0 == nibbles[1]
      y == nibbles[3]
      n == nibbles[4]
  IN  ~ \/ instruction \in { \h00E0, \h00EE }
        \/ n0 \in { 1, 2, 3, 4, 6, 7, 10, 11, 12, 13 }
        \/ n0 \in { 5, 9 } /\ n = 0
        \/ n0 = 8 /\ n \in { 0, 1, 2, 3, 4, 5, 6, 7, 14 }
        \/ n0 = 14 /\ << y, n >> \in { << 9, 14 >>, << 10, 1 >> }
        \/ n0 = 15 /\ << y, n >> \in { << 0, 7 >>, << 1, 5 >>, << 1, 8 >>, << 1, 14 >>,
                                       << 0, 10 >>, << 2, 9 >>, << 3, 3 >>,
                                       << 5, 5 >>, << 6, 5 >> }

\* A tick panicked on an instruction it had fetched.
FailedOn(instruction) == TickFailed /\ pc + 1 < RAM_SIZE /\ Fetched = instruction

\* C15: a tick on a word that matches no arm of the dispatch fails with the
\* failure value UnknownOpcode (which carries the word and the program
\* counter); the word is not executed as another opcode, nor skipped.
C15_TypedUnknownOpcode ==
  /\ TickFailed /\ pc + 1 < RAM_SIZE /\ Unmatched(Fetched) => fault = "UnknownOpcode"
  /\ Stepped => ~Unmatched(hist.instruction)

\* C15, what the code does: the word reaches todo!(), which panics with a
\* message that carries neither the word nor the program counter; no such
\* word completes a step.
C15_UnknownPanics ==
  /\ TickFailed /\ pc + 1 < RAM_SIZE =>
       (Unmatched(Fetched) <=> fault = NotYetImplemented)
  /\ Stepped => ~Unmatched(hist.instruction)

\* C15: the tick on 0x8AB9 at 0x200 has panicked at todo!().
C15_TodoReached ==
  /\ FailedOn(\h8AB9)
  /\ pc = \h200
  /\ fault = NotYetImplemented
  /\ ~Stepped

\* The instruction reads or writes memory from I on: FX33, FX55, FX65, DXYN;
\* and the number of bytes the code takes from I for it (the rows of a draw
\* below the bottom edge are not read).
IsRangeOp(instruction) ==
  IsBcd(instruction) \/ IsStore(instruction) \/ IsLoad(instruction) \/ IsDraw(instruction)
RangeLen(instruction, regs) ==
  IF IsBcd(instruction) THEN 3
  ELSE IF IsDraw(instruction)
  THEN LET row0 == regs[YOf(instruction)] % 32
       IN  Min(row0 + NOf(instruction), 32) - row0
  ELSE XOf(instruction) + 1

\* A tick panicked on an instruction that takes bytes from I on.
RangeFailed == TickFailed /\ pc + 1 < RAM_SIZE /\ IsRangeOp(Fetched)

\* C16: FX55, FX65, FX33 or DXYN whose bytes from I on reach an address at
\* or beyond the size of memory fails with the failure value
\* MemoryRangeOutOfBounds; memory has no byte outside 0..4095.
C16_TypedRangeFailure ==
  /\ RangeFailed => fault = "MemoryRangeOutOfBounds"
  /\ DOMAIN memory \subseteq 0..(RAM_SIZE - 1)

\* C16, what the code does: such an instruction panics at the index of
\* memory, exactly when its bytes would end beyond memory; one whose bytes
\* fit completes; and memory has no byte outside 0..4095.
C16_RangePanics ==
  /\ RangeFailed => fault = IndexOutOfBounds /\ i + RangeLen(Fetched, v) > RAM_SIZE
  /\ Stepped /\ IsRangeOp(hist.instruction) =>
       hist.i + RangeLen(hist.instruction, hist.v) <= RAM_SIZE
  /\ DOMAIN memory \subseteq 0..(RAM_SIZE - 1)

\* C16: the draw of 3 rows with I = 0xFFE has panicked; memory and the
\* display are as they were.
C16_DrawPastEnd ==
  /\ RangeFailed
  /\ IsDraw(Fetched)
  /\ NOf(Fetched) = 3
  /\ i = \hFFE
  /\ fault = IndexOutOfBounds
  /\ screen = {}

\* load_rom panicked: main has not entered its loop.
LoadFailed == host_pc = "load_rom" /\ fault # "none"

\* main is at the head of its first frame: load_rom has returned and no
\* tick has run.  The bytes memory then holds from 0x200 on, as a sequence,
\* and whether all of memory is the font in its place, those bytes, and 0
\* elsewhere.
JustLoaded == host_pc = "update_keys" /\ hist.frames = 0
LoadedLen == Cardinality(DOMAIN memory) - Len(FONT_SET)
LoadedBytes == [k \in 1..LoadedLen |-> at(memory, \h200 + k - 1)]
FontAndRomOnly ==
  /\ DOMAIN memory =
       (FONT_INITIAL_POSITION..(FONT_INITIAL_POSITION + Len(FONT_SET) - 1))
         \cup (\h200..(\h200 + LoadedLen - 1))
  /\ \A k \in 1..Len(FONT_SET) : memory[FONT_INITIAL_POSITION + k - 1] = FONT_SET[k]

\* C17: load_rom of more than 4096 - 0x200 = 3584 bytes fails with the
\* failure value RomTooLarge and leaves memory as it was; a load of at most
\* 3584 bytes copies them to memory from 0x200 on and leaves every other
\* byte, the font included, as it was.
C17_TypedLoadFailure ==
  /\ LoadFailed => fault = "RomTooLarge" /\ memory = new_memory
  /\ JustLoaded =>
       /\ LoadedLen \in 0..MaxRomLen
       /\ LoadedBytes \in FaultRoms
       /\ FontAndRomOnly

\* C17, what the code does: the same, but that a load of more than 3584
\* bytes panics at the slice of memory.
C17_LoadCopiesOrPanics ==
  /\ LoadFailed => fault = IndexOutOfBounds /\ memory = new_memory
  /\ JustLoaded =>
       /\ LoadedLen \in 0..MaxRomLen
       /\ LoadedBytes \in FaultRoms
       /\ FontAndRomOnly

\* C17: the load of 3585 bytes has panicked, memory holding the font alone.
C17_LoadPanicked ==
  /\ LoadFailed
  /\ fault = IndexOutOfBounds
  /\ memory = new_memory

\* C17: 3584 bytes are loaded up to the last byte of memory, the font in
\* its place.
C17_LargestLoaded ==
  /\ host_pc # "load_rom"
  /\ at(memory, RAM_SIZE - 1) = MaxRomLen % 251
  /\ at(memory, \h200) = \h12
  /\ \A k \in 1..Len(FONT_SET) : at(memory, FONT_INITIAL_POSITION + k - 1) = FONT_SET[k]

\* C18: every step that changes the display sets the redraw flag, and no
\* step of the machine clears it (main clears it after it has drawn): so
\* the flag is true whenever the display differs from what main drew last.
C18_RedrawFlag ==
  /\ [](screen # hist.rendered => should_redraw)
  /\ [][/\ screen' # screen => should_redraw'
        /\ should_redraw /\ ~should_redraw' => host_pc = "redraw"]_vars

\* C18, witness: 00E0 has cleared a display that main had drawn lit, and
\* the flag, which main had cleared, is true.
C18_Witness ==
  /\ Stepped
  /\ hist.instruction = \h00E0
  /\ hist.rendered # {}
  /\ hist.screen = hist.rendered
  /\ hist.frames >= 1
  /\ screen = {}
  /\ should_redraw

(***************************************************************************)
(* Every instruction word.  main has loaded a program of the one word w,   *)
(* has taken a frame's keys with none down, and is about to tick.          *)
(***************************************************************************)
U16 == 0..65535

WordInit ==
  /\ \E w \in U16 : memory = load_rom(new_memory, Bytes(<< w >>))
  /\ screen = {}
  /\ pc = \h200
  /\ i = 0
  /\ stack = << >>
  /\ delay_timer = 0
  /\ sound_timer = 0
  /\ v = [k \in 0..15 |-> 0]
  /\ should_redraw = FALSE
  /\ keypad = update_keys([previous_frame_keys |-> NoKeys, current_frame_keys |-> NoKeys],
                          NoKeys)
  /\ host_pc = "tick"
  /\ ticks_done = 0
  /\ fault = "none"
  /\ overflow_checks = "unobserved"
  /\ hist = [instruction |-> -1, at |-> 0, next |-> "none", addr |-> 0,
             repeat |-> FALSE,
             v |-> [k \in 0..15 |-> 0], i |-> 0, screen |-> {}, stack |-> << >>,
             keypad |-> [previous_frame_keys |-> NoKeys, current_frame_keys |-> NoKeys],
             bytes |-> [k \in 0..15 |-> 0],
             calls |-> 0, returns |-> 0, sites |-> << >>,
             delay_set |-> -1, delay_frames |-> 0,
             sound_set |-> -1, sound_frames |-> 0,
             stored |-> NoStore,
             rendered |-> {},
             frames |-> 0]

\* The first tick of the frame.  CXNN draws one of 256 bytes: its tick is
\* taken for the masks NN of RandomMasks, for every X.
RandomMasks == { 0, 15, 255 }

FirstTick ==
  /\ ticks_done = 0
  /\ Fetched \div 4096 = 12 => Fetched % 256 \in RandomMasks
  /\ Tick

SpecWords == WordInit /\ [][FirstTick]_vars

\* C19: the four nibbles of every instruction word w are in 0..15 and make
\* w up, most significant first; the byte an instruction takes from w is
\* w mod 256 (what 6XNN leaves in VX) and the address is w mod 4096 (what
\* ANNN leaves in I and 1NNN in the program counter).
C19_Decode ==
  /\ pc + 1 < RAM_SIZE =>
       LET w == Fetched
           nibbles == decode_instruction_into_nibbles(w)
       IN  /\ Len(nibbles) = 4
           /\ \A k \in 1..4 : nibbles[k] \in 0..15
           /\ nibbles[1] * 4096 + nibbles[2] * 256 + nibbles[3] * 16 + nibbles[4] = w
  /\ Stepped =>
       LET w == hist.instruction
       IN  /\ XOf(w) = (w \div 256) % 16
           /\ w \div 4096 = 6 => v[(w \div 256) % 16] = w % 256
           /\ w \div 4096 = 10 => i = w % 4096
           /\ w \div 4096 = 1 => pc = w % 4096

\* C19, witness: 0x6A17 was decoded as 6, A, 1, 7, and VA is 0x17.
C19_Witness ==
  /\ Stepped
  /\ hist.instruction = \h6A17
  /\ decode_instruction_into_nibbles(hist.instruction) = << 6, 10, 1, 7 >>
  /\ v[10] = \h17

\* The failure values the description gives to a step.
TypedFailures ==
  { "FetchOutOfBounds", "UnknownOpcode", "StackOverflow", "StackUnderflow",
    "MemoryRangeOutOfBounds" }

\* The panics of a tick.
TickPanics ==
  { IndexOutOfBounds, UnwrapOnNone, CapacityExceeded, NotYetImplemented,
    ArithmeticOverflow }

IsKeySkip(instruction) == IsOp(instruction, 14, 9, 14) \/ IsOp(instruction, 14, 10, 1)
IsFontAddress(instruction) == IsOp(instruction, 15, 2, 9)

\* C20: a tick ends with a completed instruction or with one of the typed
\* failures, whatever the registers hold: so a tick that did not complete
\* left one of those failure values.
C20_OnlyTypedFailures ==
  TickFailed => fault \in TypedFailures

\* C20, what the code does: a tick that does not complete is a panic.  A
\* key skip panics exactly when VX is 16 or more (the index of the 16 keys);
\* FX29 overflows its u8 product exactly when VX is 52 or more, and then
\* panics or wraps as the build has it.
C20_TicksPanic ==
  /\ TickFailed => fault \in TickPanics
  /\ TickFailed /\ pc + 1 < RAM_SIZE /\ IsKeySkip(Fetched) =>
       v[XOf(Fetched)] >= 16 /\ fault = IndexOutOfBounds
  /\ Stepped /\ IsKeySkip(hist.instruction) => hist.v[XOf(hist.instruction)] < 16
  /\ TickFailed /\ pc + 1 < RAM_SIZE /\ IsFontAddress(Fetched) =>
       v[XOf(Fetched)] >= 52 /\ fault = ArithmeticOverflow
  /\ Stepped /\ IsFontAddress(hist.instruction) =>
       /\ hist.v[XOf(hist.instruction)] >= 52 => overflow_checks = "off"
       /\ i = FONT_INITIAL_POSITION + ((hist.v[XOf(hist.instruction)] * 5) % 256)

\* C20: the key skip EX9E with VX = 16 has panicked at the index of the keys.
C20_KeySkipPanicked ==
  /\ FailedOn(\hE09E)
  /\ v[0] = 16
  /\ fault = IndexOutOfBounds

\* C20: FX29 with VX = 52 has panicked at the product, in a build that
\* checks overflow.
C20_FontAddressPanicked ==
  /\ TickFailed
  /\ pc + 1 < RAM_SIZE
  /\ IsFontAddress(Fetched)
  /\ v[XOf(Fetched)] = 52
  /\ fault = ArithmeticOverflow

\* C21: the keypad changes only in update_keys, which makes the current
\* snapshot the previous one and the frame's keys the current one; no tick
\* changes either snapshot; main calls update_keys once at the head of each
\* frame, before the ticks of the frame, which all follow it.
C21_KeypadRotates ==
  [][/\ keypad' # keypad => host_pc = "update_keys" /\ host_pc' = "tick"
     /\ host_pc = "update_keys" /\ host_pc' = "tick" =>
          /\ keypad'.previous_frame_keys = keypad.current_frame_keys
          /\ keypad'.current_frame_keys \in Snapshots
          /\ ticks_done' = 0
     /\ host_pc = "tick" =>
          /\ keypad' = keypad
          /\ host_pc' = "tick" => ticks_done' = ticks_done + 1 \/ fault' # "none"
          /\ host_pc' # "tick" => host_pc' = "redraw" /\ ticks_done' = instructions_per_frame
     /\ host_pc = "redraw" => keypad' = keypad /\ host_pc' = "update_keys"]_vars

\* C21, witness: the second frame's update has made the first frame's
\* current snapshot (key 15 down) the previous one and taken the new keys
\* (key 14 down, key 15 up); no tick of the frame has run yet.
C21_Witness ==
  /\ host_pc = "tick"
  /\ ticks_done = 0
  /\ hist.frames = 1
  /\ Stepped
  /\ hist.keypad.current_frame_keys[15]
  /\ keypad.previous_frame_keys = hist.keypad.current_frame_keys
  /\ keypad.current_frame_keys[14]
  /\ ~keypad.current_frame_keys[15]
  /\ keypad.current_frame_keys # keypad.previous_frame_keys
====
